---- MODULE Spec2Model ----
(***************************************************************************)
(* Link-scoring and adaptive crawl-parameter engine of professor_analysis. *)
(*                                                                         *)
(* Scores are kept in HALF POINTS (score * 2): the source adds 0.5 per     *)
(* keyword match and 1.5 per blacklist match, so every score the source    *)
(* can produce is a multiple of 0.5 and doubling it is exact.  The         *)
(* thresholds 1.5 and 2 are therefore 3 and 4, the clamp [0,10] is [0,20]. *)
(***************************************************************************)
EXTENDS Integers, Sequences, FiniteSets, Bags, TLC

Min(a, b) == IF a <= b THEN a ELSE b
Max(a, b) == IF a >= b THEN a ELSE b

(***************************************************************************)
(* Bounds of the model.                                                    *)
(***************************************************************************)
MaxKeywordMatches == 3   \* professor keywords matched by one anchor text
MaxBlacklistMatches == 3 \* blacklist keywords matched by one anchor text
MaxWords == 3            \* words in one anchor text

(***************************************************************************)
(* Anchor texts, by the features the scorer reads from them.               *)
(*   kw, strong     matches of professor_keywords / strong_keywords        *)
(*   nwords         len(text.split())                                      *)
(*   too_long       len(text) > 50                                         *)
(*   first_last_cap two words, both starting upper case, both longer than 1*)
(*   all_cap        every word longer than 1 starts upper case             *)
(*   words_long     every word is longer than 1                            *)
(*   title          contains dr. / prof. / professor / dr / prof           *)
(*   special        contains one of @ # $ % & * ( ) [ ]                    *)
(*   degree         matches the degree regex                               *)
(*   blacklist      matches of blacklist_keywords                          *)
(***************************************************************************)
EmptyText ==
    [kw |-> 0, strong |-> 0, nwords |-> 0, too_long |-> FALSE,
     first_last_cap |-> FALSE, all_cap |-> TRUE, words_long |-> TRUE,
     title |-> FALSE, special |-> FALSE, degree |-> FALSE, blacklist |-> 0]

Texts ==
    {EmptyText} \cup
    { t \in [kw : 0..MaxKeywordMatches, strong : 0..MaxKeywordMatches,
             nwords : 1..MaxWords, too_long : BOOLEAN,
             first_last_cap : BOOLEAN, all_cap : BOOLEAN, words_long : BOOLEAN,
             title : BOOLEAN, special : BOOLEAN, degree : BOOLEAN,
             blacklist : 0..MaxBlacklistMatches] :
        /\ t.strong <= t.kw          \* strong_keywords is a subset of professor_keywords
        /\ t.first_last_cap = (t.nwords = 2 /\ t.all_cap /\ t.words_long)
        /\ (t.nwords = 1 /\ ~t.words_long) => t.all_cap
        \* calculate_name_likelihood returns before reading a text over 50
        \* characters: its capitals, titles and special characters are not
        \* told apart
        /\ t.too_long => (t.all_cap /\ ~t.title /\ ~t.special) }

(***************************************************************************)
(* Hrefs, by the features the scorer and the collector read from them.     *)
(*   url         the resolved absolute URL (the identity used for dedup)   *)
(*   url_kw      contains one of url_keywords                              *)
(*   path        contains one of academic_paths                            *)
(*   m_user_id, m_people_name, m_name_slug  which of the three regular     *)
(*               expressions of the personal-page block match              *)
(*   trailing_slash  the href ends with "/" (recorded where it is read:    *)
(*               under the third pattern)                                  *)
(*   bad         contains one of bad_patterns                              *)
(***************************************************************************)
HrefFeatures ==
    { h \in [url_kw : BOOLEAN, path : BOOLEAN, m_user_id : BOOLEAN,
             m_people_name : BOOLEAN, m_name_slug : BOOLEAN,
             trailing_slash : BOOLEAN, bad : BOOLEAN] :
        \* a last segment of digits matches neither of the letter patterns
        /\ h.m_user_id => (~h.m_people_name /\ ~h.m_name_slug)
        \* /people/x contains the keyword "people" and the path "/people/"
        /\ h.m_people_name => (h.url_kw /\ h.path)
        \* href.split('/')[-1] is read only under the third pattern
        /\ h.trailing_slash => (h.m_name_slug /\ ~h.m_people_name) }

Regions == {"navigation_elements", "footer_elements", "sidebar_elements"}

\* main.py:710-716: TRUE as soon as one of the three areas holds the anchor.
is_link_in_non_content_area(anchor_regions) ==
    \E area_name \in Regions : area_name \in anchor_regions

\* A "First Last" pattern worth less than the three-word pattern.
calculate_name_likelihood_weak_pair(text, is_academic_page) ==
    IF text.nwords = 0 \/ text.too_long THEN 0
    ELSE
        LET basic == IF text.nwords = 2
                     THEN (IF text.first_last_cap THEN 1 ELSE 0)
                     ELSE IF text.nwords = 3
                          THEN (IF text.all_cap THEN 2 ELSE 0)
                          ELSE 0
            lenient == IF is_academic_page /\ text.nwords >= 2 /\ text.all_cap
                       THEN 1 ELSE 0
            titled == IF text.title THEN 1 ELSE 0
            special == IF text.special THEN 2 ELSE 0
            score == basic + lenient + titled - special
        IN Max(0, Min(4, score))

\* main.py:884-920, in whole points.
calculate_name_likelihood(text, is_academic_page) ==
    IF text.nwords = 0 \/ text.too_long THEN 0
    ELSE
        LET basic == IF text.nwords = 2
                     THEN (IF text.first_last_cap THEN 3 ELSE 0)
                     ELSE IF text.nwords = 3
                          THEN (IF text.all_cap THEN 2 ELSE 0)
                          ELSE 0
            lenient == IF is_academic_page /\ text.nwords >= 2 /\ text.all_cap
                       THEN 1 ELSE 0
            titled == IF text.title THEN 1 ELSE 0
            special == IF text.special THEN 2 ELSE 0
            score == basic + lenient + titled - special
        IN Max(0, Min(4, score))

\* main.py:741-744, in half points: min(keyword_matches * 0.5 + strong_matches, 4).
KeywordScore(text) == Min(text.kw + 2 * text.strong, 8)

\* main.py:751-770, in half points.
UrlScore(href) ==
    (IF href.url_kw THEN 4 ELSE 0)
    + (IF href.path THEN 2 ELSE 0)
    + (IF href.m_user_id THEN 6
       ELSE IF href.m_people_name THEN 6
       ELSE IF href.m_name_slug
            \* href.split('/')[-1] is empty when the href ends with "/"
            THEN (IF ~href.trailing_slash THEN 4 ELSE 0)
            ELSE 0)

\* main.py:777-790, in half points.
AcademicBonus(text, is_academic_page) ==
    IF is_academic_page
    THEN (IF text.nwords = 2 /\ text.kw = 0 /\ text.words_long THEN 4 ELSE 0)
         + (IF text.degree THEN 2 ELSE 0)
    ELSE 0

\* main.py:803-805, in half points: min(blacklist_matches * 1.5, 3).
BlacklistPenalty(text) ==
    IF text.blacklist > 0 THEN Min(3 * text.blacklist, 6) ELSE 0

\* A penalty taken once for every area that holds the anchor.
RegionPenaltyStacked(anchor_regions) == 2 * Cardinality(anchor_regions)

\* main.py:792-794, in half points: one penalty, whatever the number of areas.
RegionPenalty(anchor_regions) ==
    IF is_link_in_non_content_area(anchor_regions) THEN 2 ELSE 0

\* main.py:721-813: the score before the final clamp, in half points.
RawLinkScore(text, href, anchor_regions, is_academic_page) ==
    2
    + KeywordScore(text)
    + UrlScore(href)
    + 2 * calculate_name_likelihood(text, is_academic_page)
    + AcademicBonus(text, is_academic_page)
    - RegionPenalty(anchor_regions)
    - BlacklistPenalty(text)
    - (IF href.bad THEN 6 ELSE 0)

\* A return of the unclamped sum.
ClampScoreMissing(s) == s

\* main.py:820: max(0, min(10, score)).
ClampScore(score) == Max(0, Min(20, score))

\* main.py:719-820, in half points.
calculate_link_score(text, href, anchor_regions, is_academic_page) ==
    ClampScore(RawLinkScore(text, href, anchor_regions, is_academic_page))

(***************************************************************************)
(* State.                                                                  *)
(*   Scorer (one call of calculate_link_score):                            *)
(*     href, anchor_regions, is_academic_page   the call's inputs          *)
(*     raw_score, score    the local score before and after the clamp      *)
(*     calls               the calls the anchor loop of get_all_links makes  *)
(*                         for one anchor met in several places: where the *)
(*                         anchor was, what the scorer returned, and       *)
(*                         whether the loop kept the link                  *)
(*   Link collector (one call of get_all_links or of crawl):               *)
(*     callee              which of the two functions runs                 *)
(*     chain_len, chain_tail  the site: pages 1..chain_len, page p links   *)
(*                         "next" to p+1, the last page to chain_tail      *)
(*                         (0: no next link, else a page of the chain)     *)
(*     start_url           the seed URL the call is given ("" is empty);   *)
(*                         page 1 of the chain is the page at start_url    *)
(*     follow_pagination, max_pages   the call's parameters                *)
(*     to_visit, visited, collected, page_count   get_all_links' locals    *)
(*     current, page_num   crawl's locals (current = 0 is None)            *)
(*     fetched             the page fetches issued so far, in order; in a  *)
(*                         run of the adaptive controller, the requests    *)
(*                         for the seed page                               *)
(*     site_anchors        anchors served so far (bounds the site)         *)
(*     retained, unique_links   the dedup loop's kept pairs and the result *)
(*   Parameter recommender (one call of generate_parameter_recommendations):*)
(*     page_analysis, pagination_info, professor_density   its inputs      *)
(*                         (the density in percent)                        *)
(*     recommendations     the dictionary it returns                       *)
(*   Adaptive controller (one call of analyze_results_and_adjust_params,   *)
(*   or of adaptive_analysis_with_intelligent_params):                     *)
(*     api_key, use_intelligent_params   the call's parameters             *)
(*     budget              max_links and max_pages in use                  *)
(*     results, adjustment the locals of the same names                    *)
(*     passes              the calls of analyze_webpage_links made so far  *)
(*   Classification pass (one call of analyze_webpage_links):              *)
(*     call_args           max_links, max_workers, max_pages as received   *)
(*     pool_links          all_links, the links handed to the pool         *)
(*     verdicts            what classifying each URL comes to              *)
(*     futures             the futures of future_to_link, in submit order  *)
(*     writers             the thread of each append to results            *)
(*   User interface (one press of the start button in app.py main):        *)
(*     analysis_mode       the mode chosen                                 *)
(*     inputs              max_links, max_workers, max_pages as entered    *)
(*     branch              the message branch reached                      *)
(*   pc                    position of the running call                    *)
(***************************************************************************)
VARIABLES href, anchor_regions, is_academic_page, raw_score, score, calls,
          callee, chain_len, chain_tail, start_url, follow_pagination, max_pages,
          to_visit, visited, collected, page_count, current, page_num,
          fetched, site_anchors, retained, unique_links,
          page_analysis, pagination_info, professor_density, recommendations,
          api_key, use_intelligent_params, budget, results, adjustment, passes,
          call_args, pool_links, verdicts, futures, writers,
          analysis_mode, inputs, branch,
          pc

score_vars == <<href, anchor_regions, is_academic_page, raw_score, score, calls>>
collect_locals == <<callee, chain_len, chain_tail, follow_pagination, max_pages,
                    to_visit, visited, collected, page_count, current, page_num,
                    site_anchors, retained, unique_links>>
collect_vars == <<collect_locals, start_url, fetched>>
recommend_vars == <<page_analysis, pagination_info, professor_density,
                    recommendations>>
adaptive_vars == <<api_key, use_intelligent_params, budget, results, adjustment,
                   passes>>
pool_vars == <<call_args, pool_links, verdicts, futures, writers>>
ui_vars == <<analysis_mode, inputs, branch>>
vars == <<score_vars, collect_vars, recommend_vars, adaptive_vars, pool_vars,
          ui_vars, pc>>

NoHref == [url_kw |-> FALSE, path |-> FALSE, m_user_id |-> FALSE,
           m_people_name |-> FALSE, m_name_slug |-> FALSE,
           trailing_slash |-> FALSE, bad |-> FALSE]

IdleScore ==
    /\ href = NoHref
    /\ anchor_regions = {}
    /\ is_academic_page = FALSE
    /\ raw_score = 0
    /\ score = 0
    /\ calls = <<>>

IdleCollectLocals ==
    /\ callee = "none"
    /\ chain_len = 0
    /\ chain_tail = 0
    /\ follow_pagination = FALSE
    /\ max_pages = 0
    /\ to_visit = <<>>
    /\ visited = {}
    /\ collected = <<>>
    /\ page_count = 0
    /\ current = 0
    /\ page_num = 0
    /\ site_anchors = 0
    /\ retained = <<>>
    /\ unique_links = <<>>

IdleCollect ==
    /\ IdleCollectLocals
    /\ start_url = ""
    /\ fetched = <<>>

NoRecommendations ==
    [max_links |-> 0, max_pages |-> 0, reasoning |-> <<>>, page_type |-> "unknown",
     professor_density |-> 0, pagination_detected |-> FALSE]

NoAdjustment ==
    [should_adjust |-> FALSE, reason |-> "", new_max_links |-> 0, new_max_pages |-> 0]

IdleRecommend ==
    /\ page_analysis = [page_type |-> "unknown", total_links |-> 0]
    /\ pagination_info = [has_pagination |-> FALSE, estimated_total_pages |-> 1]
    /\ professor_density = 0
    /\ recommendations = NoRecommendations

IdleAdaptive ==
    /\ api_key = ""
    /\ use_intelligent_params = FALSE
    /\ budget = [max_links |-> 0, max_pages |-> 0]
    /\ results = <<>>
    /\ adjustment = NoAdjustment
    /\ passes = <<>>

NoArgs == [max_links |-> 0, max_workers |-> 0, max_pages |-> 0]

IdlePool ==
    /\ call_args = NoArgs
    /\ pool_links = <<>>
    /\ verdicts = <<>>
    /\ futures = <<>>
    /\ writers = <<>>

IdleUI ==
    /\ analysis_mode = "none"
    /\ inputs = NoArgs
    /\ branch = "none"

(***************************************************************************)
(* The scorer: one call of calculate_link_score on every anchor text.      *)
(***************************************************************************)
InitScore ==
    /\ href \in HrefFeatures
    /\ anchor_regions \in SUBSET Regions
    /\ is_academic_page \in BOOLEAN
    /\ raw_score = 0
    /\ score = 0
    /\ calls = <<>>
    /\ pc = "start"
    /\ IdleCollect
    /\ IdleRecommend
    /\ IdleAdaptive
    /\ IdlePool
    /\ IdleUI

ScoreLink ==
    /\ pc = "start"
    /\ \E t \in Texts :
        /\ raw_score' = RawLinkScore(t, href, anchor_regions, is_academic_page)
        /\ score' = calculate_link_score(t, href, anchor_regions, is_academic_page)
    /\ pc' = "scored"
    /\ UNCHANGED <<pool_vars, ui_vars>>
    /\ UNCHANGED <<href, anchor_regions, is_academic_page, calls, collect_vars,
                   recommend_vars, adaptive_vars>>

NextScore == ScoreLink

SpecScore == InitScore /\ [][NextScore]_vars

\* C5: whatever the unclamped sum of bonuses and penalties, the score
\* calculate_link_score returns lies in [0, 10] (0..20 half points).
ScoreInRange == pc = "scored" => (0 <= score /\ score <= 20)

ScoreInRangeWitness == pc = "scored" /\ raw_score > 20 /\ score = 20

(***************************************************************************)
(* The link collector.                                                     *)
(***************************************************************************)
MaxChain == 4        \* pages in the chain of "next" links
MaxPagesParam == 3   \* largest max_pages a call is given
MaxSiteAnchors == 3  \* anchors the whole site serves

\* The anchors pages are built from.  url is the resolved href (the collector
\* compares hrefs as strings); excluded is the collector's own filter
\* (javascript:, mailto:, tel:, "#" and the file extensions of main.py:161-169).
PlainText ==
    [kw |-> 0, strong |-> 0, nwords |-> 1, too_long |-> FALSE,
     first_last_cap |-> FALSE, all_cap |-> FALSE, words_long |-> TRUE,
     title |-> FALSE, special |-> FALSE, degree |-> FALSE, blacklist |-> 0]

AnchorPool ==
    { \* <a href="/~jsmith">Jane Smith</a>
      [url |-> "jsmith", excluded |-> FALSE, href |-> NoHref, regions |-> {},
       text |-> [PlainText EXCEPT !.nwords = 2, !.first_last_cap = TRUE,
                                  !.all_cap = TRUE]],
      \* <a href="/~jsmith">Prof. Smith</a>: the same page under another text
      [url |-> "jsmith", excluded |-> FALSE, href |-> NoHref, regions |-> {},
       text |-> [PlainText EXCEPT !.nwords = 2, !.first_last_cap = TRUE,
                                  !.all_cap = TRUE, !.title = TRUE]],
      \* <a href="/faculty/">Faculty</a> inside <nav>
      [url |-> "faculty", excluded |-> FALSE,
       href |-> [NoHref EXCEPT !.url_kw = TRUE, !.path = TRUE],
       regions |-> {"navigation_elements"},
       text |-> [PlainText EXCEPT !.kw = 1, !.strong = 1, !.all_cap = TRUE]],
      \* <a href="/">home</a> inside <footer>
      [url |-> "home", excluded |-> FALSE, href |-> NoHref,
       regions |-> {"footer_elements"},
       text |-> [PlainText EXCEPT !.blacklist = 1]],
      \* <a href="https://example.edu/contact">Contact Us</a>: "contact us" is
      \* one of blacklist_keywords, both words start with a capital
      [url |-> "contact", excluded |-> FALSE, href |-> NoHref, regions |-> {},
       text |-> [PlainText EXCEPT !.nwords = 2, !.first_last_cap = TRUE,
                                  !.all_cap = TRUE, !.blacklist = 1]],
      \* <a href="/cv.pdf">Jane Smith</a>
      [url |-> "cv.pdf", excluded |-> TRUE, href |-> NoHref, regions |-> {},
       text |-> [PlainText EXCEPT !.nwords = 2, !.first_last_cap = TRUE,
                                  !.all_cap = TRUE]] }

\* What detect_academic_page_type reads: whether base_url matches one of
\* academic_url_patterns, and whether a navigation / a content element holds
\* one of the academic words.
PageKinds == [url_academic : BOOLEAN, nav_words : BOOLEAN, content_words : BOOLEAN]

\* main.py:823-881.
detect_academic_page_type(page) ==
    IF page.url_academic THEN TRUE
    ELSE LET academic_indicators ==
                 (IF page.nav_words THEN 1 ELSE 0)
                 + (IF page.content_words THEN 1 ELSE 0)
         IN academic_indicators >= 2

\* The two thresholds the wrong way round.
ThresholdStricterOnAcademic(academic) == IF academic THEN 4 ELSE 3

\* main.py:176: 1.5 on an academic page, 2 otherwise (half points).
Threshold(academic) == IF academic THEN 3 ELSE 4

\* main.py:156-186: the (href, score) pairs one page contributes, academic
\* being what detect_academic_page_type answers for the page.
PageLinks(anchors, academic) ==
    LET ScoreOf(a) == calculate_link_score(a.text, a.href, a.regions, academic)
        kept == SelectSeq(anchors,
                          LAMBDA a : ~a.excluded /\ ScoreOf(a) > Threshold(academic))
    IN [i \in 1..Len(kept) |-> [link |-> kept[i].url, score |-> ScoreOf(kept[i])]]

\* The page a "next" link of page p points to (0: the page has none).
NextPage(p) == IF p < chain_len THEN p + 1 ELSE chain_tail

\* main.py:188-191 / pagination_scraper.py:46-52.
detect_next_page(p) == NextPage(p)

FetchOutcomes == {"ok", "network_error", "http_error"}

\* The seed URLs a call is given: the empty string, and a URL.
SeedUrls == {"", "https://example.edu/faculty"}

\* main.py:125-133: what session.get and raise_for_status may do with a URL.
\* On the empty string session.get raises (no scheme) before any request
\* leaves.
FetchOutcomesOf(url) == IF url = "" THEN {"invalid_url"} ELSE FetchOutcomes

\* The URL of page p: page 1 is the page at start_url, the others are named
\* by the "next" links found.
PageUrl(p) == IF p = 1 THEN start_url ELSE "next"

\* A handler that names the connection error only.
HandlerCatchesConnectionOnly(outcome) == outcome = "network_error"

\* main.py:134: "except Exception" catches every failure of the fetch.
HandlerCatches(outcome) == outcome \in {"network_error", "http_error", "invalid_url"}

\* sorted(collected, key=lambda x: x[1], reverse=True): stable, descending.
RECURSIVE InsertByScore(_, _)
InsertByScore(x, sorted) ==
    IF sorted = <<>> THEN <<x>>
    ELSE IF Head(sorted).score >= x.score
         THEN <<Head(sorted)>> \o InsertByScore(x, Tail(sorted))
         ELSE <<x>> \o sorted

RECURSIVE SortedByScore(_)
SortedByScore(pairs) ==
    IF pairs = <<>> THEN <<>>
    ELSE InsertByScore(pairs[Len(pairs)],
                       SortedByScore(SubSeq(pairs, 1, Len(pairs) - 1)))

\* A dedup that lets a later pair of the same link replace the earlier one.
RECURSIVE LastOccurrences(_, _)
LastOccurrences(pairs, seen) ==
    IF pairs = <<>> THEN <<>>
    ELSE IF \E i \in 2..Len(pairs) : pairs[i].link = Head(pairs).link
         THEN LastOccurrences(Tail(pairs), seen)
         ELSE <<Head(pairs)>> \o LastOccurrences(Tail(pairs), seen)

\* main.py:196-202: the pairs whose link was not seen before, in order.
RECURSIVE FirstOccurrences(_, _)
FirstOccurrences(pairs, seen) ==
    IF pairs = <<>> THEN <<>>
    ELSE IF Head(pairs).link \notin seen
         THEN <<Head(pairs)>>
              \o FirstOccurrences(Tail(pairs), seen \cup {Head(pairs).link})
         ELSE FirstOccurrences(Tail(pairs), seen)

\* A dedup loop that walks the pairs in collection order.
DedupOrderUnsorted(pairs) == pairs

\* main.py:199: the order the dedup loop walks the collected pairs in.
DedupOrder(pairs) == SortedByScore(pairs)

\* A visited set that is never consulted.
AlreadyVisitedNever(url, seen) == FALSE

\* main.py:119 and 190: "current_url in visited", "next_url not in visited".
AlreadyVisited(url, seen) == url \in seen

\* The head of the queue read without being removed.
PopMissing(queue) == queue

\* main.py:118: to_visit.pop(0) leaves the rest of the queue.
Pop(queue) == Tail(queue)

\* The loop bound off by one.
LoopConditionInclusive == to_visit # <<>> /\ page_count <= max_pages

\* main.py:117: while to_visit and page_count < max_pages.
LoopCondition == to_visit # <<>> /\ page_count < max_pages

\* pagination_scraper.py:97: while current and page_num <= max_pages.
CrawlLoopCondition == current # 0 /\ page_num <= max_pages

AnchorSeqs(n) == UNION { [1..k -> AnchorPool] : k \in 0..n }

InitCollect ==
    /\ callee \in {"get_all_links", "crawl"}
    /\ chain_len \in 1..MaxChain
    /\ chain_tail \in 0..chain_len
    /\ start_url \in SeedUrls
    /\ follow_pagination \in BOOLEAN
    /\ callee = "crawl" => follow_pagination
    /\ max_pages \in 0..MaxPagesParam
    /\ to_visit = IF callee = "get_all_links" THEN <<1>> ELSE <<>>
    /\ visited = {}
    /\ collected = <<>>
    /\ page_count = 0
    \* crawl tests "while current": the empty string counts as no page
    /\ current = IF callee = "crawl" /\ start_url # "" THEN 1 ELSE 0
    /\ page_num = IF callee = "crawl" THEN 1 ELSE 0
    /\ fetched = <<>>
    /\ site_anchors = 0
    /\ retained = <<>>
    /\ unique_links = <<>>
    /\ pc = "loop"
    /\ IdleScore
    /\ IdleRecommend
    /\ IdleAdaptive
    /\ IdlePool
    /\ IdleUI

\* main.py:117-193: one iteration of get_all_links' loop.
VisitPage ==
    /\ callee = "get_all_links"
    /\ pc = "loop"
    /\ LoopCondition
    /\ LET current_url == Head(to_visit)
       IN IF AlreadyVisited(current_url, visited)
          THEN /\ to_visit' = Pop(to_visit)
               /\ UNCHANGED <<visited, collected, page_count, fetched,
                              site_anchors, pc>>
          ELSE /\ visited' = visited \cup {current_url}
               /\ \E outcome \in FetchOutcomesOf(PageUrl(current_url)) :
                    /\ fetched' = Append(fetched, [url |-> current_url,
                                                    outcome |-> outcome])
                    /\ IF outcome # "ok"
                       THEN /\ to_visit' = Pop(to_visit)
                            /\ pc' = IF HandlerCatches(outcome)
                                     THEN "loop" ELSE "raised"
                            /\ UNCHANGED <<collected, page_count, site_anchors>>
                       ELSE \E academic \in { detect_academic_page_type(page) :
                                                 page \in PageKinds },
                               anchors \in AnchorSeqs(MaxSiteAnchors - site_anchors) :
                              LET next_url == detect_next_page(current_url)
                              IN /\ site_anchors' = site_anchors + Len(anchors)
                                 /\ collected' = collected \o PageLinks(anchors, academic)
                                 /\ to_visit' =
                                      IF /\ follow_pagination
                                         /\ next_url # 0
                                         /\ ~AlreadyVisited(next_url, visited')
                                      THEN Append(Pop(to_visit), next_url)
                                      ELSE Pop(to_visit)
                                 /\ page_count' = page_count + 1
                                 /\ pc' = "loop"
    /\ UNCHANGED <<pool_vars, ui_vars>>
    /\ UNCHANGED <<score_vars, recommend_vars, adaptive_vars,
                   callee, chain_len, chain_tail, start_url, follow_pagination,
                   max_pages, current, page_num, retained, unique_links>>

\* main.py:195-207: the dedup loop and the return.
ReturnLinks ==
    /\ callee = "get_all_links"
    /\ pc = "loop"
    /\ ~LoopCondition
    /\ retained' = FirstOccurrences(DedupOrder(collected), {})
    /\ unique_links' = [i \in 1..Len(retained') |-> retained'[i].link]
    /\ pc' = "done"
    /\ UNCHANGED <<pool_vars, ui_vars>>
    /\ UNCHANGED <<score_vars, recommend_vars, adaptive_vars,
                   callee, chain_len, chain_tail, start_url, follow_pagination,
                   max_pages, to_visit, visited, collected, page_count, current,
                   page_num, fetched, site_anchors>>

\* pagination_scraper.py:97-110: one iteration of crawl's loop.  The page fetch
\* of extract_professor_links or a summary of one of its links may raise; the
\* handler breaks out of the loop.
CrawlPage ==
    /\ callee = "crawl"
    /\ pc = "loop"
    /\ CrawlLoopCondition
    /\ \E outcome \in FetchOutcomes \cup {"summary_error"} :
        /\ fetched' = Append(fetched, [url |-> current, outcome |-> outcome])
        /\ IF outcome = "ok"
           THEN /\ current' = detect_next_page(current)
                /\ page_num' = page_num + 1
                /\ pc' = "loop"
           ELSE /\ pc' = "done"
                /\ UNCHANGED <<current, page_num>>
    /\ UNCHANGED <<pool_vars, ui_vars>>
    /\ UNCHANGED <<score_vars, recommend_vars, adaptive_vars,
                   callee, chain_len, chain_tail, start_url, follow_pagination,
                   max_pages, to_visit, visited, collected, page_count,
                   site_anchors, retained, unique_links>>

\* pagination_scraper.py:112.
CrawlReturn ==
    /\ callee = "crawl"
    /\ pc = "loop"
    /\ ~CrawlLoopCondition
    /\ pc' = "done"
    /\ UNCHANGED <<pool_vars, ui_vars>>
    /\ UNCHANGED <<score_vars, collect_vars, recommend_vars, adaptive_vars>>

NextCollect == VisitPage \/ ReturnLinks \/ CrawlPage \/ CrawlReturn

SpecCollect == InitCollect /\ [][NextCollect]_vars

\* One call of get_all_links on a site whose pages carry one anchor between
\* them at most.
InitWalk ==
    /\ callee = "get_all_links"
    /\ chain_len \in 1..MaxChain
    /\ chain_tail \in 0..chain_len
    /\ start_url \in SeedUrls
    /\ follow_pagination \in BOOLEAN
    /\ max_pages \in 0..MaxPagesParam
    /\ to_visit = <<1>>
    /\ visited = {}
    /\ collected = <<>>
    /\ page_count = 0
    /\ current = 0
    /\ page_num = 0
    /\ fetched = <<>>
    /\ site_anchors = MaxSiteAnchors - 1
    /\ retained = <<>>
    /\ unique_links = <<>>
    /\ pc = "loop"
    /\ IdleScore
    /\ IdleRecommend
    /\ IdleAdaptive
    /\ IdlePool
    /\ IdleUI

NextWalk == VisitPage \/ ReturnLinks

\* The interpreter keeps running the loop of the call: a step that can be
\* taken is taken.
SpecWalk == InitWalk /\ [][NextWalk]_vars /\ WF_vars(NextWalk)

(***************************************************************************)
(* Properties of the link collector.                                       *)
(***************************************************************************)
FetchedUrls == { fetched[i].url : i \in 1..Len(fetched) }
AllFetchesOk == \A i \in 1..Len(fetched) : fetched[i].outcome = "ok"
ScoresOf(link) == { collected[i].score : i \in { j \in 1..Len(collected) :
                                                   collected[j].link = link } }
MaxScoreOf(link) == CHOOSE s \in ScoresOf(link) : \A t \in ScoresOf(link) : s >= t
Returned == callee = "get_all_links" /\ pc = "done"

DedupKeepsMaxScore ==
    Returned =>
        /\ \A i, j \in 1..Len(unique_links) :
               i # j => unique_links[i] # unique_links[j]
        /\ \A k \in 1..Len(collected) :
               \E i \in 1..Len(unique_links) :
                   /\ unique_links[i] = collected[k].link
                   /\ retained[i].link = collected[k].link
                   /\ retained[i].score = MaxScoreOf(collected[k].link)

DedupKeepsMaxScoreWitness ==
    /\ Returned
    /\ \E i, j \in 1..Len(collected) :
           /\ i < j
           /\ collected[i].link = collected[j].link
           /\ collected[i].score < collected[j].score
    /\ Len(unique_links) >= 2

\* C3: the returned list is ordered by non-increasing maximum collected score.
ReturnedByDescendingScore ==
    Returned =>
        \A i, j \in 1..Len(unique_links) :
            i < j => MaxScoreOf(unique_links[i]) >= MaxScoreOf(unique_links[j])

ReturnedByDescendingScoreWitness ==
    /\ Returned
    /\ Len(unique_links) >= 2
    /\ Len(collected) >= 3
    /\ collected[1].link = unique_links[2]
    /\ MaxScoreOf(unique_links[1]) > MaxScoreOf(unique_links[2])

MinEstimatedPages == 0 - 1   \* smallest estimated_total_pages given
MaxEstimatedPages == 12      \* largest estimated_total_pages given

\* main.py:1193-1230: the values analyze_page_characteristics gives page_type.
LargeScalePageTypes ==
    {"nyu_steinhardt", "upenn_annenberg", "upenn_engineering", "upenn_wharton",
     "harvard", "mit", "stanford", "uc_berkeley", "columbia"}
PageTypes ==
    {"unknown", "department", "college", "graduate_faculty", "faculty_list"}
    \cup LargeScalePageTypes

\* Anchor counts on both sides of the two size rules (main.py:1408, 1415).
TotalLinkCounts == {0, 49, 50, 200, 201}

\* Densities in percent, on both sides of the three density rules
\* (main.py:1381, 1384, 1387).
Densities == {0, 9, 10, 30, 31, 50, 51, 100}

PageAnalyses == [page_type : PageTypes, total_links : TotalLinkCounts]
PaginationInfos == [has_pagination : BOOLEAN,
                    estimated_total_pages : MinEstimatedPages..MaxEstimatedPages]

\* A recommender that returns max_pages as computed.
ClampPagesMissing(p) == p

\* main.py:1421: max(1, min(10, max_pages)).
ClampPages(p) == Max(1, Min(10, p))

\* main.py:1420: max(10, min(100, max_links)).
ClampLinks(l) == Max(10, Min(100, l))

\* main.py:1370-1378.
LinksByPageType(pa) ==
    IF pa.page_type = "department" THEN 20
    ELSE IF pa.page_type = "college" THEN 50
    ELSE IF pa.page_type = "nyu_steinhardt" THEN 60
    ELSE 30

\* A density rule that adds to max_links instead of raising it to a floor.
LinksByDensityAdditive(l, density) ==
    IF density > 50 THEN l + 60
    ELSE IF density > 30 THEN l + 40
    ELSE IF density < 10 THEN l + 50
    ELSE l

\* main.py:1381-1389 (density in percent).
LinksByDensity(l, density) ==
    IF density > 50 THEN Max(l, 60)
    ELSE IF density > 30 THEN Max(l, 40)
    ELSE IF density < 10 THEN Max(l, 50)
    ELSE l

\* main.py:1392-1405.
PagesByPagination(pi) ==
    IF pi.has_pagination
    THEN LET estimated_pages == pi.estimated_total_pages
         IN IF estimated_pages <= 3 THEN estimated_pages
            ELSE IF estimated_pages <= 10 THEN Min(5, estimated_pages)
            ELSE 3
    ELSE 1

\* main.py:1408-1417.
LinksByPageSize(l, pa, density) ==
    IF pa.total_links > 200
    THEN IF pa.page_type \in {"nyu_steinhardt", "faculty_list", "college"}
            /\ density > 50
         THEN l
         ELSE Min(l, 40)
    ELSE IF pa.total_links < 50 THEN Max(l, 15)
    ELSE l

\* main.py:1367-1417, 1423: the clause of each rule that fired, in order.
Reasoning(pa, pi, density) ==
    (IF pa.page_type \in {"department", "college", "nyu_steinhardt"}
     THEN <<"page_type">> ELSE <<>>)
    \o (IF density > 50 \/ density > 30 \/ density < 10
        THEN <<"density">> ELSE <<>>)
    \o <<"pagination">>
    \o (IF pa.total_links > 200 \/ pa.total_links < 50
        THEN <<"page_size">> ELSE <<>>)

\* main.py:1357-1432.
generate_parameter_recommendations(pa, pi, density) ==
    LET max_links_4 == LinksByPageSize(LinksByDensity(LinksByPageType(pa), density),
                                       pa, density)
        max_pages_3 == PagesByPagination(pi)
    IN [max_links |-> ClampLinks(max_links_4),
        max_pages |-> ClampPages(max_pages_3),
        reasoning |-> Reasoning(pa, pi, density),
        page_type |-> pa.page_type,
        professor_density |-> density,
        pagination_detected |-> pi.has_pagination]

InitRecommend ==
    /\ page_analysis \in PageAnalyses
    /\ pagination_info \in PaginationInfos
    /\ professor_density \in Densities
    /\ recommendations = NoRecommendations
    /\ pc = "start"
    /\ IdleScore
    /\ IdleCollect
    /\ IdleAdaptive
    /\ IdlePool
    /\ IdleUI

Recommend ==
    /\ pc = "start"
    /\ recommendations' = generate_parameter_recommendations(
                              page_analysis, pagination_info, professor_density)
    /\ pc' = "recommended"
    /\ UNCHANGED <<pool_vars, ui_vars>>
    /\ UNCHANGED <<score_vars, collect_vars, adaptive_vars, page_analysis,
                   pagination_info, professor_density>>

NextRecommend == Recommend

SpecRecommend == InitRecommend /\ [][NextRecommend]_vars

\* C6: for every page characterization, pagination info and density the
\* recommended max_links lies in [10, 100] and max_pages in [1, 10].
BudgetClamp ==
    pc = "recommended" =>
        /\ 10 <= recommendations.max_links /\ recommendations.max_links <= 100
        /\ 1 <= recommendations.max_pages /\ recommendations.max_pages <= 10

BudgetClampWitness ==
    /\ pc = "recommended"
    /\ pagination_info.has_pagination
    /\ pagination_info.estimated_total_pages < 1
    /\ recommendations.max_pages = 1

(***************************************************************************)
(* The adaptive controller.                                                *)
(***************************************************************************)
MaxProfessors == 21      \* records marked "Yes" in a result list
MaxOthers == 25          \* records not marked "Yes" in a result list
NumCandidateUrls == 2    \* links a pass may find on the site

\* Current max_links on both sides of the caps 100 and 80 and of the bound 60
\* of the fourth rule.
LinkBudgets == {10, 25, 30, 40, 50, 51, 60, 61, 80, 100}
PageBudgets == 1..10

\* A result record, by the two fields the controller reads.
Record(url, is_professor) == [URL |-> url, Is_Professor_Page |-> is_professor]

\* test_fixes.py:48-65: yes records marked "Yes" followed by others marked "No".
MockResults(yes, others) ==
    [i \in 1..(yes + others) |->
        IF i <= yes THEN Record(1000 + i, "Yes") ELSE Record(i - yes, "No")]

\* A first rule without its caps.
WidenNoProfessorsUncapped(l, p) == [new_max_links |-> l * 2, new_max_pages |-> p + 2]

\* main.py:1613-1614.
WidenNoProfessors(l, p) ==
    [new_max_links |-> Min(l * 2, 100), new_max_pages |-> Min(p + 2, 8)]

\* A second rule that asks for fewer than 10 professors.
HighRateLowCountBelowTen(professor_count, total_results) ==
    professor_count < 10 /\ 5 * professor_count > 2 * total_results

\* main.py:1616: professor_count < 20 and professor_rate > 0.4, the rate being
\* professor_count / total_results.
HighRateLowCount(professor_count, total_results) ==
    professor_count < 20 /\ 5 * professor_count > 2 * total_results

\* A third rule that asks for fewer than 3 professors.
LowRateLowCountBelowThree(professor_count, total_results) ==
    professor_count < 3 /\ 5 * professor_count < total_results

\* main.py:1624: professor_count < 5 and professor_rate < 0.2.
LowRateLowCount(professor_count, total_results) ==
    professor_count < 5 /\ 5 * professor_count < total_results

\* main.py:1632: professor_rate > 0.8 and current_max_links > 60.
HighRateBroadSearch(professor_count, total_results, current_max_links) ==
    5 * professor_count > 4 * total_results /\ current_max_links > 60

\* An adjustment that falls back to the default budget of the controller.
KeepBudgetAsDefault(current_max_links, current_max_pages) ==
    [should_adjust |-> FALSE, reason |-> "",
     new_max_links |-> 30, new_max_pages |-> 3]

\* main.py:1597-1602: the adjustment before any rule has matched.
KeepBudget(current_max_links, current_max_pages) ==
    [should_adjust |-> FALSE, reason |-> "",
     new_max_links |-> current_max_links,
     new_max_pages |-> current_max_pages]

\* main.py:1586-1641.
analyze_results_and_adjust_params(rs, current_max_links, current_max_pages) ==
    LET professor_results ==
            SelectSeq(rs, LAMBDA r : r.Is_Professor_Page = "Yes")
        professor_count == Len(professor_results)
        total_results == Len(rs)
        default == KeepBudget(current_max_links, current_max_pages)
    IN IF professor_count = 0
       THEN [should_adjust |-> TRUE, reason |-> "no_professors",
             new_max_links |->
                 WidenNoProfessors(current_max_links, current_max_pages).new_max_links,
             new_max_pages |->
                 WidenNoProfessors(current_max_links, current_max_pages).new_max_pages]
       ELSE IF HighRateLowCount(professor_count, total_results)
       THEN [should_adjust |-> TRUE, reason |-> "high_rate_low_count",
             new_max_links |-> Min(current_max_links * 2, 100),
             new_max_pages |-> Min(current_max_pages + 1, 6)]
       ELSE IF LowRateLowCount(professor_count, total_results)
       THEN [should_adjust |-> TRUE, reason |-> "low_rate_low_count",
             new_max_links |-> Min(current_max_links + 20, 80),
             new_max_pages |-> Min(current_max_pages + 1, 6)]
       ELSE IF HighRateBroadSearch(professor_count, total_results, current_max_links)
       THEN [default EXCEPT !.reason = "high_rate_broad_search"]
       ELSE default

ProfessorCount(rs) ==
    Cardinality({ i \in 1..Len(rs) : rs[i].Is_Professor_Page = "Yes" })

\* One call of analyze_results_and_adjust_params on a list of result records.
InitAdjust ==
    /\ \E yes \in 0..MaxProfessors, others \in 0..MaxOthers :
           results = MockResults(yes, others)
    /\ budget \in [max_links : LinkBudgets, max_pages : PageBudgets]
    /\ adjustment = NoAdjustment
    /\ api_key = ""
    /\ use_intelligent_params = FALSE
    /\ passes = <<>>
    /\ pc = "start"
    /\ IdleScore
    /\ IdleCollect
    /\ IdleRecommend
    /\ IdlePool
    /\ IdleUI

Adjust ==
    /\ pc = "start"
    /\ adjustment' = analyze_results_and_adjust_params(
                         results, budget.max_links, budget.max_pages)
    /\ pc' = "adjusted"
    /\ UNCHANGED <<pool_vars, ui_vars>>
    /\ UNCHANGED <<score_vars, collect_vars, recommend_vars, api_key,
                   use_intelligent_params, budget, results, passes>>

NextAdjust == Adjust

SpecAdjust == InitAdjust /\ [][NextAdjust]_vars

\* C8: with no record marked "Yes" (the empty list included) the controller
\* widens: should_adjust, max_links doubled up to 100, max_pages plus 2 up to 8.
ZeroHitsWiden ==
    (pc = "adjusted" /\ ProfessorCount(results) = 0) =>
        /\ adjustment.should_adjust
        /\ adjustment.new_max_links = Min(2 * budget.max_links, 100)
        /\ adjustment.new_max_pages = Min(budget.max_pages + 2, 8)

\* 0 of 25 with budget (25, 3) gives (50, 5).
ZeroHitsWidenWitness ==
    /\ pc = "adjusted"
    /\ ProfessorCount(results) = 0
    /\ Len(results) = 25
    /\ budget = [max_links |-> 25, max_pages |-> 3]
    /\ adjustment.should_adjust
    /\ adjustment.new_max_links = 50
    /\ adjustment.new_max_pages = 5

\* C9: with 1 to 19 records marked "Yes" and a hit rate above 0.4 the
\* controller widens: should_adjust, max_links doubled up to 100, max_pages
\* plus 1 up to 6.
HighYieldWiden ==
    (/\ pc = "adjusted"
     /\ ProfessorCount(results) \in 1..19
     /\ 5 * ProfessorCount(results) > 2 * Len(results)) =>
        /\ adjustment.should_adjust
        /\ adjustment.new_max_links = Min(2 * budget.max_links, 100)
        /\ adjustment.new_max_pages = Min(budget.max_pages + 1, 6)

\* 12 of 25 with budget (25, 3) gives (50, 4).
HighYieldWidenWitness ==
    /\ pc = "adjusted"
    /\ ProfessorCount(results) = 12
    /\ Len(results) = 25
    /\ budget = [max_links |-> 25, max_pages |-> 3]
    /\ adjustment.should_adjust
    /\ adjustment.new_max_links = 50
    /\ adjustment.new_max_pages = 4

\* C21: with 1 to 4 records marked "Yes" and a hit rate below 0.2 the
\* controller widens: should_adjust, max_links plus 20 up to 80, max_pages
\* plus 1 up to 6.
LowYieldWiden ==
    (/\ pc = "adjusted"
     /\ ProfessorCount(results) \in 1..4
     /\ 5 * ProfessorCount(results) < Len(results)) =>
        /\ adjustment.should_adjust
        /\ adjustment.new_max_links = Min(budget.max_links + 20, 80)
        /\ adjustment.new_max_pages = Min(budget.max_pages + 1, 6)

\* 4 of 25 with budget (25, 3) gives (45, 4).
LowYieldWidenWitness ==
    /\ pc = "adjusted"
    /\ ProfessorCount(results) = 4
    /\ Len(results) = 25
    /\ budget = [max_links |-> 25, max_pages |-> 3]
    /\ adjustment.should_adjust
    /\ adjustment.new_max_links = 45
    /\ adjustment.new_max_pages = 4

(***************************************************************************)
(* One call of adaptive_analysis_with_intelligent_params.                  *)
(***************************************************************************)
CandidateUrls == 1..NumCandidateUrls

Injective(f) == \A i, j \in DOMAIN f : i # j => f[i] # f[j]

\* What get_all_links may return: pairwise distinct URLs (main.py:196-202).
LinkLists ==
    { l \in UNION { [1..k -> CandidateUrls] : k \in 0..NumCandidateUrls } :
        Injective(l) }

\* The orders in which n futures may complete.
CompletionOrders(n) == { o \in [1..n -> 1..n] : Injective(o) }

\* What is_professor_webpage finds out about a link, or that it failed.
Verdicts == {"yes", "no", "error"}

\* What get_research_interests may answer in one pass: the answer of the
\* language model is not the same from one pass to the next.
ResearchData == {"interests_a", "interests_b"}

None == [URL |-> 0, Is_Professor_Page |-> "None"]

\* main.py:559-587: a record for a professor page, None otherwise.
process_link(link, verdict, research_data) ==
    IF verdict = "yes"
    THEN [URL |-> link, Is_Professor_Page |-> "Yes",
          Research_Interests |-> research_data]
    ELSE None

\* main.py:617-671, given what the collector returns, the verdict on each URL,
\* the research data of the pass and the order the futures complete in: the
\* number of links classified and the records of the returned frame.
analyze_webpage_links(links, verdict, research, order, max_links_arg) ==
    LET all_links == SubSeq(links, 1, Min(Len(links), max_links_arg))
        completed == [i \in 1..Len(all_links) |->
                         process_link(all_links[order[i]],
                                      verdict[all_links[order[i]]],
                                      research)]
    IN [classified |-> Len(all_links),
        results |-> SelectSeq(completed, LAMBDA r : r # None)]

PassOutcomes(max_links_arg) ==
    UNION { { analyze_webpage_links(l, v, rd, o, max_links_arg) :
                  v \in [CandidateUrls -> Verdicts],
                  rd \in ResearchData,
                  o \in CompletionOrders(Min(Len(l), max_links_arg)) } :
            l \in LinkLists }

\* main.py:1183-1187.
FallbackRecommendations ==
    [max_links |-> 30, max_pages |-> 3, reasoning |-> <<"fallback">>]

\* main.py:1266-1327: estimated_total_pages is 1, 5 or a page number found.
PaginationStructures ==
    { pi \in PaginationInfos :
        /\ pi.estimated_total_pages >= 1
        /\ ~pi.has_pagination => pi.estimated_total_pages = 1 }

\* main.py:1146-1187: what intelligent_parameter_estimation may return.
EstimationOutcomes ==
    { generate_parameter_recommendations(pa, pi, d) :
          pa \in PageAnalyses, pi \in PaginationStructures, d \in Densities }
    \cup {FallbackRecommendations}

\* A controller that evaluates the merged results again.
AfterMergeReevaluate == "evaluate"

\* main.py:1581-1583: after the merge the function returns.
AfterMerge == "done"

\* A merge in which a later record of a URL replaces the earlier one.
RECURSIVE DeduplicateByUrlLastWins(_, _)
DeduplicateByUrlLastWins(all_results, seen_urls) ==
    IF all_results = <<>> THEN <<>>
    ELSE IF \E i \in 2..Len(all_results) : all_results[i].URL = Head(all_results).URL
         THEN DeduplicateByUrlLastWins(Tail(all_results), seen_urls)
         ELSE <<Head(all_results)>>
              \o DeduplicateByUrlLastWins(Tail(all_results), seen_urls)

\* main.py:1571-1578: first occurrence of each URL.
RECURSIVE DeduplicateByUrl(_, _)
DeduplicateByUrl(all_results, seen_urls) ==
    IF all_results = <<>> THEN <<>>
    ELSE IF Head(all_results).URL \notin seen_urls
         THEN <<Head(all_results)>>
              \o DeduplicateByUrl(Tail(all_results),
                                  seen_urls \cup {Head(all_results).URL})
         ELSE DeduplicateByUrl(Tail(all_results), seen_urls)

\* main.py:1122-1143: how a call of robust_web_request on a URL ends: with
\* the response, or with the exception of its last attempt (the attempts
\* before the last are retried inside the call).
robust_web_request(url) == FetchOutcomesOf(url)

\* The log entries of a sequence of requests for the seed page.
SeedFetches(outcomes) ==
    [i \in 1..Len(outcomes) |-> [url |-> 1, outcome |-> outcomes[i]]]

\* main.py:624-636: the frame of a pass whose collector returned no link.
EmptyPass == [classified |-> 0, results |-> <<>>]

\* main.py:617-671 and 117-136: one pass.  The collector first requests the
\* seed page (max_pages is at least 1 in every pass of the controller); when
\* that request fails it returns no link.
SeedFetchAndPass(max_links_arg) ==
    { [outcome |-> "ok", df |-> df] : df \in PassOutcomes(max_links_arg) }
    \cup { [outcome |-> outcome, df |-> EmptyPass] :
               outcome \in FetchOutcomes \ {"ok"} }

InitAdaptive ==
    /\ api_key \in {"", "key"}
    /\ use_intelligent_params \in BOOLEAN
    /\ start_url \in SeedUrls
    /\ fetched = <<>>
    /\ budget = [max_links |-> 0, max_pages |-> 0]
    /\ results = <<>>
    /\ adjustment = NoAdjustment
    /\ passes = <<>>
    /\ pc = "start"
    /\ IdleScore
    /\ IdleCollectLocals
    /\ IdleRecommend
    /\ IdlePool
    /\ IdleUI

\* main.py:1534-1544, and 1156-1187 for intelligent_parameter_estimation:
\* the seed page is requested, and the fallback dictionary is returned when
\* the request or the analysis of the page raises.
Estimate ==
    /\ pc = "start"
    /\ IF use_intelligent_params
       THEN \E outcome \in robust_web_request(start_url) :
              \E param_recommendations \in
                     IF outcome = "ok"
                     THEN EstimationOutcomes ELSE {FallbackRecommendations} :
                /\ fetched' = fetched \o SeedFetches(<<outcome>>)
                /\ budget' = [max_links |-> param_recommendations.max_links,
                              max_pages |-> param_recommendations.max_pages]
       ELSE /\ budget' = [max_links |-> 30, max_pages |-> 3]
            /\ UNCHANGED fetched
    /\ pc' = "initial_pass"
    /\ UNCHANGED <<pool_vars, ui_vars>>
    /\ UNCHANGED <<score_vars, collect_locals, start_url, recommend_vars, api_key,
                   use_intelligent_params, results, adjustment, passes>>

\* main.py:1548-1549, and 609-610 for the missing key.
InitialPass ==
    /\ pc = "initial_pass"
    /\ IF api_key = ""
       THEN /\ pc' = "raised"
            /\ UNCHANGED <<fetched, results, passes>>
       ELSE \E pass \in IF start_url = ""
                         THEN {[outcome |-> "invalid_url", df |-> EmptyPass]}
                         ELSE SeedFetchAndPass(budget.max_links) :
                /\ fetched' = fetched \o SeedFetches(<<pass.outcome>>)
                /\ results' = pass.df.results
                /\ passes' = Append(passes,
                                    [max_links |-> budget.max_links,
                                     max_pages |-> budget.max_pages,
                                     classified |-> pass.df.classified,
                                     results |-> pass.df.results])
                /\ pc' = "evaluate"
    /\ UNCHANGED <<pool_vars, ui_vars>>
    /\ UNCHANGED <<score_vars, collect_locals, start_url, recommend_vars, api_key,
                   use_intelligent_params, budget, adjustment>>

\* main.py:1552-1555.
Evaluate ==
    /\ pc = "evaluate"
    /\ IF use_intelligent_params /\ results # <<>>
       THEN /\ adjustment' = analyze_results_and_adjust_params(
                                 results, budget.max_links, budget.max_pages)
            /\ pc' = IF adjustment'.should_adjust THEN "widen" ELSE "done"
       ELSE /\ pc' = "done"
            /\ UNCHANGED adjustment
    /\ UNCHANGED <<pool_vars, ui_vars>>
    /\ UNCHANGED <<score_vars, collect_vars, recommend_vars, api_key,
                   use_intelligent_params, budget, results, passes>>

\* main.py:1560-1581.
WidenAndMerge ==
    /\ pc = "widen"
    /\ \E pass \in SeedFetchAndPass(adjustment.new_max_links) :
        LET additional_df == pass.df
            additional_results == additional_df.results
            all_results == results \o additional_results
        IN /\ fetched' = fetched \o SeedFetches(<<pass.outcome>>)
           /\ results' = DeduplicateByUrl(all_results, {})
           /\ passes' = Append(passes,
                               [max_links |-> adjustment.new_max_links,
                                max_pages |-> adjustment.new_max_pages,
                                classified |-> additional_df.classified,
                                results |-> additional_results])
    /\ pc' = AfterMerge
    /\ UNCHANGED <<pool_vars, ui_vars>>
    /\ UNCHANGED <<score_vars, collect_locals, start_url, recommend_vars, api_key,
                   use_intelligent_params, budget, adjustment>>

NextAdaptive == Estimate \/ InitialPass \/ Evaluate \/ WidenAndMerge

SpecAdaptive == InitAdaptive /\ [][NextAdaptive]_vars

\* C7: one run makes at most two crawl+classify passes, and once the second
\* has been made the run is over: its results are not evaluated again.
SingleShot == Len(passes) <= 2 /\ (Len(passes) = 2 => pc = "done")

SingleShotWitness ==
    /\ pc = "done"
    /\ Len(passes) = 2
    /\ analyze_results_and_adjust_params(
           results, adjustment.new_max_links, adjustment.new_max_pages).should_adjust

\* C10: in intelligent mode, whenever the initial pass confirms no faculty
\* page, the run ends after a second pass made with max_links doubled (up to
\* 100) and max_pages plus 2 (up to 8).
ZeroConfirmedRepass ==
    (/\ pc = "done"
     /\ use_intelligent_params
     /\ ProfessorCount(passes[1].results) = 0) =>
        /\ Len(passes) = 2
        /\ passes[2].max_links = Min(2 * passes[1].max_links, 100)
        /\ passes[2].max_pages = Min(passes[1].max_pages + 2, 8)

UrlsOf(rs) == { rs[i].URL : i \in 1..Len(rs) }

\* C11: after a second pass the result is the first-pass records followed by
\* the second-pass records of URLs the first pass did not have: URLs are
\* pairwise distinct, every URL of either pass appears exactly once, and a
\* URL of both passes keeps its first-pass record.
MergeFirstWins ==
    (pc = "done" /\ Len(passes) = 2) =>
        LET first == passes[1].results
            second == passes[2].results
        IN /\ \A i, j \in 1..Len(results) : i # j => results[i].URL # results[j].URL
           /\ UrlsOf(results) = UrlsOf(first) \cup UrlsOf(second)
           /\ \A i \in 1..Len(first) : results[i] = first[i]
           /\ results = first \o SelectSeq(second,
                                           LAMBDA r : r.URL \notin UrlsOf(first))

MergeFirstWinsWitness ==
    /\ pc = "done"
    /\ Len(passes) = 2
    /\ \E i \in 1..Len(passes[1].results), j \in 1..Len(passes[2].results) :
           /\ passes[1].results[i].URL = passes[2].results[j].URL
           /\ passes[1].results[i] # passes[2].results[j]
    /\ UrlsOf(passes[2].results) \ UrlsOf(passes[1].results) # {}

(***************************************************************************)
(* One anchor met in several places.  The anchor loop of get_all_links     *)
(* scores an anchor and compares the score with the threshold of the page  *)
(* (main.py:171-180); here the same text and href go through that step     *)
(* twice, and both calls are kept in calls.                                *)
(***************************************************************************)
\* main.py:171-180: the score of one anchor and whether its link is kept.
ScoreCall(text, h, regions, academic) ==
    LET link_score == calculate_link_score(text, h, regions, academic)
    IN [name_pattern |-> text.first_last_cap,
        anchor_regions |-> regions,
        is_academic_page |-> academic,
        score |-> link_score,
        kept |-> link_score > Threshold(academic)]

\* The anchor is on a page detect_academic_page_type answers False for.
InitPageKinds ==
    /\ href \in HrefFeatures
    /\ anchor_regions \in SUBSET Regions
    /\ is_academic_page = FALSE
    /\ raw_score = 0
    /\ score = 0
    /\ calls = <<>>
    /\ pc = "start"
    /\ IdleCollect
    /\ IdleRecommend
    /\ IdleAdaptive
    /\ IdlePool
    /\ IdleUI

\* The anchor on that page, then on a page detected as academic.
ScoreOnBothPageKinds ==
    /\ pc = "start"
    /\ \E t \in Texts :
        calls' = <<ScoreCall(t, href, anchor_regions, is_academic_page),
                   ScoreCall(t, href, anchor_regions, ~is_academic_page)>>
    /\ pc' = "compared"
    /\ UNCHANGED <<pool_vars, ui_vars>>
    /\ UNCHANGED <<href, anchor_regions, is_academic_page, raw_score, score,
                   collect_vars, recommend_vars, adaptive_vars>>

NextPageKinds == ScoreOnBothPageKinds

SpecPageKinds == InitPageKinds /\ [][NextPageKinds]_vars

\* C12: a link get_all_links keeps on a page detected as non-academic is
\* also kept when the same anchor, href and regions are on a page detected
\* as academic.
AcademicNeverStricter ==
    pc = "compared" =>
        \A i, j \in 1..Len(calls) :
            (/\ ~calls[i].is_academic_page
             /\ calls[j].is_academic_page
             /\ calls[i].kept) => calls[j].kept

AcademicNeverStricterWitness ==
    /\ pc = "compared"
    /\ ~calls[1].is_academic_page /\ calls[1].kept
    /\ calls[2].is_academic_page /\ calls[2].kept
    /\ calls[2].score > calls[1].score

(***************************************************************************)
(* The same anchor inside several non-content areas and inside one.        *)
(***************************************************************************)
\* main.py:712: the areas in the order the function walks them.
RegionOrder == <<"navigation_elements", "footer_elements", "sidebar_elements">>

\* The anchor lies inside at least two of the areas.
InitRegions ==
    /\ href \in HrefFeatures
    /\ anchor_regions \in { r \in SUBSET Regions : Cardinality(r) >= 2 }
    /\ is_academic_page \in BOOLEAN
    /\ raw_score = 0
    /\ score = 0
    /\ calls = <<>>
    /\ pc = "start"
    /\ IdleCollect
    /\ IdleRecommend
    /\ IdleAdaptive
    /\ IdlePool
    /\ IdleUI

\* The anchor where it is, then inside each of its areas alone.
ScoreInEachRegion ==
    /\ pc = "start"
    /\ \E t \in Texts :
        LET single == SelectSeq(RegionOrder, LAMBDA r : r \in anchor_regions)
        IN calls' = <<ScoreCall(t, href, anchor_regions, is_academic_page)>>
                    \o [i \in 1..Len(single) |->
                           ScoreCall(t, href, {single[i]}, is_academic_page)]
    /\ pc' = "compared"
    /\ UNCHANGED <<pool_vars, ui_vars>>
    /\ UNCHANGED <<href, anchor_regions, is_academic_page, raw_score, score,
                   collect_vars, recommend_vars, adaptive_vars>>

NextRegions == ScoreInEachRegion

SpecRegions == InitRegions /\ [][NextRegions]_vars

\* C13: an anchor inside two or three of the navigation, footer and sidebar
\* areas gets the score the same anchor gets inside one of them alone.
RegionPenaltyOnce ==
    pc = "compared" =>
        \A i, j \in 1..Len(calls) :
            (calls[i].anchor_regions # {} /\ calls[j].anchor_regions # {})
                => calls[i].score = calls[j].score

RegionPenaltyOnceWitness ==
    /\ pc = "compared"
    /\ Len(calls) = 4
    /\ Cardinality(calls[1].anchor_regions) = 3
    /\ Cardinality(calls[2].anchor_regions) = 1
    /\ calls[1].score > 0
    /\ calls[1].score < 20

\* C14: the anchor "Contact Us" linking to https://example.edu/contact scores
\* at or below the generic threshold 2 and its link is not in the list
\* get_all_links returns.
ContactUsExcluded ==
    Returned =>
        /\ \A i \in 1..Len(collected) :
               collected[i].link = "contact" => collected[i].score <= 4
        /\ \A i \in 1..Len(unique_links) : unique_links[i] # "contact"

(***************************************************************************)
(* Two anchors that differ only in the shape of their words.               *)
(***************************************************************************)
\* The texts that share with text every feature the scorer reads apart from
\* the number of words, their capitals and their lengths.
SameOtherFeatures(text) ==
    { o \in { [text EXCEPT !.nwords = n, !.all_cap = c, !.words_long = w,
                           !.first_last_cap = (n = 2 /\ c /\ w)] :
                  n \in 0..MaxWords, c \in BOOLEAN, w \in BOOLEAN } :
        o \in Texts }

\* Both anchors are in the main content, in the navigation, or in the footer
\* and the sidebar at once.
InitNames ==
    /\ href \in HrefFeatures
    /\ anchor_regions \in {{}, {"navigation_elements"},
                           {"footer_elements", "sidebar_elements"}}
    /\ is_academic_page \in BOOLEAN
    /\ raw_score = 0
    /\ score = 0
    /\ calls = <<>>
    /\ pc = "start"
    /\ IdleCollect
    /\ IdleRecommend
    /\ IdleAdaptive
    /\ IdlePool
    /\ IdleUI

\* An anchor of two capitalized words, each longer than one character, then
\* an anchor of another shape with the same other features.
ScoreNameAndOther ==
    /\ pc = "start"
    /\ \E name \in { t \in Texts : t.first_last_cap } :
        \E other \in { o \in SameOtherFeatures(name) : ~o.first_last_cap } :
            calls' = <<ScoreCall(name, href, anchor_regions, is_academic_page),
                       ScoreCall(other, href, anchor_regions, is_academic_page)>>
    /\ pc' = "compared"
    /\ UNCHANGED <<pool_vars, ui_vars>>
    /\ UNCHANGED <<href, anchor_regions, is_academic_page, raw_score, score,
                   collect_vars, recommend_vars, adaptive_vars>>

NextNames == ScoreNameAndOther

SpecNames == InitNames /\ [][NextNames]_vars

EmptySeedRaises ==
    (callee = "get_all_links" /\ start_url = "" /\ max_pages > 0)
        => ~(pc = "done" /\ unique_links = <<>>)

(***************************************************************************)
(* The missing API key in a run of the adaptive controller.                *)
(***************************************************************************)
\* The requests that left for the network: session.get raises on the empty
\* string before it sends anything.
NetworkFetches == SelectSeq(fetched, LAMBDA f : f.outcome # "invalid_url")

\* C17: with an empty API key the ValueError is raised before any network
\* fetch of the seed page is issued.
KeyCheckedBeforeFetch ==
    (api_key = "" /\ pc = "raised") => NetworkFetches = <<>>

(***************************************************************************)
(* One call of intelligent_parameter_estimation.                           *)
(***************************************************************************)
\* What the analysis of a fetched seed page does: it gives the three inputs
\* of the recommender, or one of its steps raises.
AnalysisOutcomes == {"ok", "raises"}

\* page_analysis, pagination_info and professor_density are what the three
\* analyses give on the seed page when it is fetched and they do not raise.
InitEstimate ==
    /\ start_url \in SeedUrls
    /\ fetched = <<>>
    /\ page_analysis \in PageAnalyses
    /\ pagination_info \in PaginationStructures
    /\ professor_density \in Densities
    /\ recommendations = NoRecommendations
    /\ pc = "start"
    /\ IdleScore
    /\ IdleCollectLocals
    /\ IdleAdaptive
    /\ IdlePool
    /\ IdleUI

\* main.py:1156-1187.
intelligent_parameter_estimation ==
    /\ pc = "start"
    /\ \E outcome \in robust_web_request(start_url), analysis \in AnalysisOutcomes :
        /\ fetched' = fetched \o SeedFetches(<<outcome>>)
        /\ recommendations' =
               IF outcome = "ok" /\ analysis = "ok"
               THEN generate_parameter_recommendations(
                        page_analysis, pagination_info, professor_density)
               ELSE FallbackRecommendations
    /\ pc' = "estimated"
    /\ UNCHANGED <<pool_vars, ui_vars>>
    /\ UNCHANGED <<score_vars, collect_locals, start_url, adaptive_vars,
                   page_analysis, pagination_info, professor_density>>

NextEstimate == intelligent_parameter_estimation

SpecEstimate == InitEstimate /\ [][NextEstimate]_vars

RecommendationKeys ==
    {"max_links", "max_pages", "reasoning", "page_type", "professor_density",
     "pagination_detected"}

\* C18: every dictionary intelligent_parameter_estimation returns carries
\* max_links, max_pages, reasoning, page_type, professor_density and
\* pagination_detected.
EstimateCarriesDiagnostics ==
    pc = "estimated" => RecommendationKeys \subseteq DOMAIN recommendations

(***************************************************************************)
(* Cycles of "next" links and the end of the walk.                         *)
(***************************************************************************)
\* C19: within one call of get_all_links no URL is fetched more than once,
\* whatever page the last "next" link of the chain points to.
NoRefetch ==
    callee = "get_all_links" =>
        \A i, j \in 1..Len(fetched) : i # j => fetched[i].url # fetched[j].url

\* A page whose "next" link points to itself, with page budget to spare.
NoRefetchWitness ==
    /\ Returned
    /\ follow_pagination
    /\ chain_len = 1 /\ chain_tail = 1
    /\ max_pages >= 2
    /\ fetched = <<[url |-> 1, outcome |-> "ok"]>>

\* C20: every call of get_all_links returns, and it returns with the queue
\* empty or with max_pages pages fetched.
GetAllLinksReturns ==
    /\ [](callee = "get_all_links" => <>(pc = "done"))
    /\ [](Returned => (to_visit = <<>> \/ page_count = max_pages))

\* The walk went round a cycle of "next" links and ended on a failed fetch.
GetAllLinksReturnsWitness ==
    /\ Returned
    /\ follow_pagination
    /\ chain_len >= 2 /\ chain_tail # 0
    /\ Len(fetched) >= 2
    /\ fetched[Len(fetched)].outcome # "ok"
    /\ page_count < max_pages

(***************************************************************************)
(* The controller where no rule widens.  A pass returns only the records   *)
(* of confirmed pages (main.py:642-644), so a run of the controller meets  *)
(* the case only on a site with 20 or more confirmed pages; the function   *)
(* itself meets it on any list, as test_adaptive_adjustment calls it       *)
(* (test_fixes.py:43-75).  Both entry points are followed here.            *)
(***************************************************************************)
MaxLargeSite == 21   \* links the collector returns on the large site

\* What a first pass may return on a site of n links of which the first k
\* are professor pages.
LargeSitePassOutcomes(max_links_arg) ==
    { analyze_webpage_links([i \in 1..n |-> i],
                            [u \in 1..n |-> IF u <= k THEN "yes" ELSE "no"],
                            "interests_a",
                            [i \in 1..Min(n, max_links_arg) |-> i],
                            max_links_arg) :
          n \in 0..MaxLargeSite, k \in 0..MaxLargeSite }

\* test_fixes.py:43-68: the function called on a list of mock records.
InitHarness ==
    /\ \E yes \in 0..MaxProfessors, others \in 0..MaxOthers :
           results = MockResults(yes, others)
    /\ budget \in [max_links : LinkBudgets, max_pages : PageBudgets]
    /\ adjustment = NoAdjustment
    /\ api_key = ""
    /\ use_intelligent_params = FALSE
    /\ passes = <<>>
    /\ pc = "harness"
    /\ IdleScore
    /\ IdleCollect
    /\ IdleRecommend
    /\ IdlePool
    /\ IdleUI

InitNoWiden == InitHarness \/ InitAdaptive

\* test_fixes.py:68.
HarnessCall ==
    /\ pc = "harness"
    /\ adjustment' = analyze_results_and_adjust_params(
                         results, budget.max_links, budget.max_pages)
    /\ pc' = "adjusted"
    /\ UNCHANGED <<pool_vars, ui_vars>>
    /\ UNCHANGED <<score_vars, collect_vars, recommend_vars, api_key,
                   use_intelligent_params, budget, results, passes>>

\* main.py:1548-1549 on the large site.
LargeSitePass ==
    /\ pc = "initial_pass"
    /\ IF api_key = ""
       THEN /\ pc' = "raised"
            /\ UNCHANGED <<fetched, results, passes>>
       ELSE \E pass \in IF start_url = ""
                         THEN {[outcome |-> "invalid_url", df |-> EmptyPass]}
                         ELSE { [outcome |-> "ok", df |-> df] :
                                    df \in LargeSitePassOutcomes(budget.max_links) } :
                /\ fetched' = fetched \o SeedFetches(<<pass.outcome>>)
                /\ results' = pass.df.results
                /\ passes' = Append(passes,
                                    [max_links |-> budget.max_links,
                                     max_pages |-> budget.max_pages,
                                     classified |-> pass.df.classified,
                                     results |-> pass.df.results])
                /\ pc' = "evaluate"
    /\ UNCHANGED <<pool_vars, ui_vars>>
    /\ UNCHANGED <<score_vars, collect_locals, start_url, recommend_vars, api_key,
                   use_intelligent_params, budget, adjustment>>

NextNoWiden == HarnessCall \/ Estimate \/ LargeSitePass \/ Evaluate \/ WidenAndMerge

SpecNoWiden == InitNoWiden /\ [][NextNoWiden]_vars

\* No widen rule matches a list with c records marked "Yes" out of t.
NoWidenRuleMatches(rs) ==
    LET c == ProfessorCount(rs)
        t == Len(rs)
    IN /\ c # 0
       /\ ~(c < 20 /\ 5 * c > 2 * t)
       /\ ~(c < 5 /\ 5 * c < t)

\* C22: when none of the three widen rules matches, the function returns
\* should_adjust false with the current budget unchanged, and a run of the
\* controller then makes no second pass and returns the records of the first
\* pass as they are.
NoWidenKeepsBudget ==
    /\ (pc = "adjusted" /\ NoWidenRuleMatches(results)) =>
           /\ ~adjustment.should_adjust
           /\ adjustment.new_max_links = budget.max_links
           /\ adjustment.new_max_pages = budget.max_pages
    /\ (/\ pc = "done"
        /\ use_intelligent_params
        /\ passes # <<>>
        /\ NoWidenRuleMatches(passes[1].results)) =>
           /\ ~adjustment.should_adjust
           /\ adjustment.new_max_links = budget.max_links
           /\ adjustment.new_max_pages = budget.max_pages
           /\ Len(passes) = 1
           /\ results = passes[1].results

\* A run whose first pass confirms 20 pages or more ends after that pass.
NoWidenKeepsBudgetWitness ==
    /\ pc = "done"
    /\ use_intelligent_params
    /\ Len(passes) = 1
    /\ Len(results) >= 20
    /\ NoWidenRuleMatches(results)
    /\ adjustment = KeepBudget(budget.max_links, budget.max_pages)

\* C23: whenever the controller decides to widen, neither max_links nor
\* max_pages goes down and at least one of them goes up.
WidenIncreases ==
    (pc = "adjusted" /\ adjustment.should_adjust) =>
        /\ adjustment.new_max_links >= budget.max_links
        /\ adjustment.new_max_pages >= budget.max_pages
        /\ \/ adjustment.new_max_links > budget.max_links
           \/ adjustment.new_max_pages > budget.max_pages

\* main.py:1593-1605: professor_rate as the fraction num / den (0 / 1 for
\* the empty list).
professor_rate(rs) ==
    IF Len(rs) > 0 THEN [num |-> ProfessorCount(rs), den |-> Len(rs)]
    ELSE [num |-> 0, den |-> 1]

\* C24: the hit rate the controller evaluates after the first pass is the
\* number of confirmed pages over the number of links classified in that
\* pass, whether confirmed, rejected or failed.
HitRateOverClassified ==
    (/\ use_intelligent_params
     /\ pc \in {"widen", "done"}
     /\ passes # <<>>
     /\ passes[1].results # <<>>) =>
        LET evaluated == professor_rate(passes[1].results)
        IN evaluated.num * passes[1].classified
               = ProfessorCount(passes[1].results) * evaluated.den

(***************************************************************************)
(* One call of analyze_webpage_links with its thread pool.  The            *)
(* coordinating thread checks the key, collects the links, submits one     *)
(* future per link and takes the futures as they complete; up to           *)
(* max_workers worker threads run process_link on the submitted links.     *)
(***************************************************************************)
MaxPoolLinks == 3   \* links the collector returns
MaxWorkers == 2     \* largest max_workers

\* What processing a link comes to: the three verdicts of process_link, or an
\* exception that leaves process_link (main.py:563-564, raised before its try).
PoolVerdicts == Verdicts \cup {"raises"}

PendingFuture == [state |-> "pending", raised |-> FALSE, result |-> None,
                  yielded |-> FALSE]

\* The future of a finished call of process_link on a link.
FinishedFuture(link, verdict) ==
    [state |-> "finished",
     raised |-> verdict = "raises",
     result |-> IF verdict = "raises" THEN None
                ELSE process_link(link, verdict, "interests_a"),
     yielded |-> FALSE]

Running(fs) == { i \in DOMAIN fs : fs[i].state = "running" }

\* The work queue of ThreadPoolExecutor is first in, first out.
NextQueued(fs) ==
    { i \in DOMAIN fs : /\ fs[i].state = "pending"
                        /\ \A j \in 1..(i - 1) : fs[j].state # "pending" }

\* A loop that takes the futures without waiting for them to complete.
as_submitted(fs) == { i \in DOMAIN fs : ~fs[i].yielded }

\* main.py:640: concurrent.futures.as_completed yields the futures that have
\* finished and were not yielded before.
as_completed(fs) == { i \in DOMAIN fs : fs[i].state = "finished" /\ ~fs[i].yielded }

\* A coordinator without the try around future.result().
CoordinatorCatchesNothing(raised) == FALSE

\* main.py:642-653: except Exception around future.result().
CoordinatorCatches(raised) == raised

InitPool ==
    /\ api_key \in {"", "key"}
    /\ call_args \in [max_links : {MaxPoolLinks - 1, 30},
                      max_workers : 1..MaxWorkers,
                      max_pages : {3}]
    /\ verdicts \in [1..MaxPoolLinks -> PoolVerdicts]
    /\ pool_links = <<>>
    /\ futures = <<>>
    /\ writers = <<>>
    /\ results = <<>>
    /\ use_intelligent_params = FALSE
    /\ budget = [max_links |-> 0, max_pages |-> 0]
    /\ adjustment = NoAdjustment
    /\ passes = <<>>
    /\ pc = "check_key"
    /\ IdleScore
    /\ IdleCollect
    /\ IdleRecommend
    /\ IdleUI

\* main.py:609-610.
CheckKey ==
    /\ pc = "check_key"
    /\ pc' = IF api_key = "" THEN "raised" ELSE "collecting"
    /\ UNCHANGED <<score_vars, collect_vars, recommend_vars, adaptive_vars,
                   pool_vars, ui_vars>>

\* main.py:627-636: get_all_links returns, its list is cut to max_links, and
\* an empty list ends the call.
CollectLinks ==
    /\ pc = "collecting"
    /\ \E n \in 0..MaxPoolLinks :
         /\ pool_links' = SubSeq([i \in 1..n |-> i], 1, Min(n, call_args.max_links))
         /\ pc' = IF pool_links' = <<>> THEN "returned" ELSE "submitting"
    /\ UNCHANGED <<score_vars, collect_vars, recommend_vars, adaptive_vars,
                   call_args, verdicts, futures, writers, ui_vars>>

\* main.py:645-648: executor.submit for the next link of all_links.
Submit ==
    /\ pc = "submitting"
    /\ futures' = Append(futures, PendingFuture)
    /\ pc' = IF Len(futures') = Len(pool_links) THEN "gathering" ELSE "submitting"
    /\ UNCHANGED <<score_vars, collect_vars, recommend_vars, adaptive_vars,
                   call_args, pool_links, verdicts, writers, ui_vars>>

\* A free worker thread takes the oldest queued call.
WorkerStart ==
    /\ pc \in {"submitting", "gathering"}
    /\ Cardinality(Running(futures)) < call_args.max_workers
    /\ \E i \in NextQueued(futures) :
         futures' = [futures EXCEPT ![i].state = "running"]
    /\ UNCHANGED <<score_vars, collect_vars, recommend_vars, adaptive_vars,
                   call_args, pool_links, verdicts, writers, ui_vars, pc>>

\* main.py:559-587: process_link returns, or raises, in a worker thread.
WorkerFinish ==
    /\ pc \in {"submitting", "gathering"}
    /\ \E i \in Running(futures) :
         futures' = [futures EXCEPT
                        ![i] = FinishedFuture(pool_links[i], verdicts[pool_links[i]])]
    /\ UNCHANGED <<score_vars, collect_vars, recommend_vars, adaptive_vars,
                   call_args, pool_links, verdicts, writers, ui_vars, pc>>

\* main.py:640-653: the body of the as_completed loop, in the coordinating
\* thread.
Gather ==
    /\ pc = "gathering"
    /\ \E i \in as_completed(futures) :
         /\ futures' = [futures EXCEPT ![i].yielded = TRUE]
         /\ IF futures[i].raised
            THEN /\ pc' = IF CoordinatorCatches(futures[i].raised)
                          THEN "gathering" ELSE "raised"
                 /\ UNCHANGED <<results, writers>>
            ELSE /\ pc' = "gathering"
                 /\ IF futures[i].result # None
                    THEN /\ results' = Append(results, futures[i].result)
                         /\ writers' = Append(writers, "coordinator")
                    ELSE UNCHANGED <<results, writers>>
    /\ UNCHANGED <<score_vars, collect_vars, recommend_vars, api_key,
                   use_intelligent_params, budget, adjustment, passes,
                   call_args, pool_links, verdicts, ui_vars>>

\* main.py:656-671: every future has been taken; the frame is returned.
ReturnFrame ==
    /\ pc = "gathering"
    /\ \A i \in DOMAIN futures : futures[i].yielded
    /\ pc' = "returned"
    /\ UNCHANGED <<score_vars, collect_vars, recommend_vars, adaptive_vars,
                   pool_vars, ui_vars>>

NextPool ==
    \/ CheckKey \/ CollectLinks \/ Submit \/ WorkerStart \/ WorkerFinish
    \/ Gather \/ ReturnFrame

SpecPool == InitPool /\ [][NextPool]_vars

\* The record process_link makes of a confirmed link.
ConfirmedRecord(link) == process_link(link, "yes", "interests_a")

\* C25: a link whose processing fails (an error answered inside the worker,
\* or an exception that leaves it) does not end the call: once the key has
\* been accepted the call never raises, and when it returns the record of
\* every link confirmed as a professor page is in the result.
LinkFailureContained ==
    /\ (pc = "raised") => api_key = ""
    /\ (pc = "returned") =>
          \A i \in DOMAIN pool_links :
              verdicts[pool_links[i]] = "yes" =>
                  \E j \in DOMAIN results : results[j] = ConfirmedRecord(pool_links[i])

\* A call that returns the record of a confirmed link although another link
\* raised in its worker and a third answered an error.
LinkFailureContainedWitness ==
    /\ pc = "returned"
    /\ \E i, j, k \in DOMAIN pool_links :
         /\ verdicts[pool_links[i]] = "raises"
         /\ verdicts[pool_links[j]] = "error"
         /\ i < k /\ j < k
         /\ verdicts[pool_links[k]] = "yes"
         /\ \E r \in DOMAIN results : results[r] = ConfirmedRecord(pool_links[k])

\* C26: results is appended to by the coordinating thread only, one append
\* per record; whatever the order the workers complete in, the returned
\* records are those of the confirmed links; and no future exists before the
\* link collector has returned.
CoordinatorOwnsResults ==
    /\ Len(writers) = Len(results)
    /\ \A w \in DOMAIN writers : writers[w] = "coordinator"
    /\ (pc = "returned") =>
          /\ { results[j] : j \in DOMAIN results }
                 = { ConfirmedRecord(pool_links[i]) :
                       i \in { x \in DOMAIN pool_links :
                                   verdicts[pool_links[x]] = "yes" } }
          /\ Len(results) = Cardinality({ x \in DOMAIN pool_links :
                                              verdicts[pool_links[x]] = "yes" })
    /\ (pc \in {"check_key", "collecting"}) => futures = <<>>

\* Two confirmed links returned in the order opposite to their submission.
CoordinatorOwnsResultsWitness ==
    /\ pc = "returned"
    /\ Len(results) >= 2
    /\ results[1].URL > results[2].URL
    /\ call_args.max_workers >= 2

(***************************************************************************)
(* One press of the start button of the user interface (app.py main).      *)
(***************************************************************************)
AnalysisModes == {"intelligent", "manual", "quick"}

\* app.py:794-823: the number inputs of manual mode; quick mode passes the
\* literals 30 and 3 (app.py:890-896); the thread count is entered in every
\* mode (app.py:821-823, 848-851).
UserInputs(mode) ==
    IF mode = "manual"
    THEN [max_links : {10, 30}, max_workers : {1, 5, 10}, max_pages : {1, 3, 10}]
    ELSE [max_links : {30}, max_workers : {1, 5, 10}, max_pages : {3}]

\* main.py:590: def analyze_webpage_links(start_url, api_key, max_links=50,
\* max_workers=5, max_pages=3), called with five positional arguments.
analyze_webpage_links_args(third, fourth, fifth) ==
    [max_links |-> third, max_workers |-> fourth, max_pages |-> fifth]

\* main.py:670 returns a pandas DataFrame, main.py:1583 a list.
ReturnType(mode) == IF mode = "intelligent" THEN "list" ELSE "DataFrame"

\* app.py:903, if results: a list is true when it is not empty; the truth
\* value of a DataFrame, empty or not, is a ValueError.
TruthValue(type, records) ==
    IF type = "DataFrame" THEN "raises"
    ELSE IF records # <<>> THEN "true" ELSE "false"

InitUI ==
    /\ analysis_mode \in AnalysisModes
    /\ inputs \in UserInputs(analysis_mode)
    /\ api_key \in {"", "key"}
    /\ start_url \in SeedUrls
    /\ branch = "none"
    /\ fetched = <<>>
    /\ results = <<>>
    /\ use_intelligent_params = FALSE
    /\ budget = [max_links |-> 0, max_pages |-> 0]
    /\ adjustment = NoAdjustment
    /\ passes = <<>>
    /\ pc = "button"
    /\ IdleScore
    /\ IdleCollectLocals
    /\ IdleRecommend
    /\ IdlePool

\* app.py:857-921: the handler of the start button.
StartAnalysis ==
    /\ pc = "button"
    /\ pc' = "shown"
    /\ IF api_key = ""
       THEN /\ branch' = "no_api_key"
            /\ UNCHANGED <<call_args, results>>
       ELSE IF start_url = ""
       THEN /\ branch' = "no_start_url"
            /\ UNCHANGED <<call_args, results>>
       ELSE /\ IF analysis_mode = "intelligent"
               THEN \E param_recommendations \in EstimationOutcomes :
                      call_args' = analyze_webpage_links_args(
                                       param_recommendations.max_links,
                                       inputs.max_workers,
                                       param_recommendations.max_pages)
               ELSE call_args' = analyze_webpage_links_args(
                                     inputs.max_links, inputs.max_pages,
                                     inputs.max_workers)
            /\ \E df \in PassOutcomes(call_args'.max_links) :
                 /\ results' = df.results
                 /\ branch' =
                      LET truth == TruthValue(ReturnType(analysis_mode), df.results)
                      IN IF truth = "true" THEN "success"
                         ELSE IF truth = "false" THEN "no_links_found"
                         ELSE "analysis_failed"
    /\ UNCHANGED <<score_vars, collect_vars, recommend_vars, api_key,
                   use_intelligent_params, budget, adjustment, passes,
                   pool_links, verdicts, futures, writers, analysis_mode, inputs>>

NextUI == StartAnalysis

SpecUI == InitUI /\ [][NextUI]_vars

\* The handler called analyze_webpage_links directly and the call returned.
DirectCallReturned ==
    /\ pc = "shown"
    /\ analysis_mode \in {"manual", "quick"}
    /\ call_args # NoArgs

\* C27: in manual and quick mode the page bound the link collector is given
\* is the max_pages chosen (3 in quick mode) and the width of the worker pool
\* is the max_workers chosen.
DirectBudgetUsed ==
    DirectCallReturned =>
        /\ call_args.max_pages = inputs.max_pages
        /\ call_args.max_workers = inputs.max_workers

\* C30: in manual and quick mode, when analyze_webpage_links returns, the
\* interface shows the results or the warning that no link was found, not
\* the message that the analysis failed.
DirectCallNeverFails ==
    DirectCallReturned => branch \in {"success", "no_links_found"}

\* C28: for a college page and for each institution-specific page type that
\* sets the large-scale flag, the page-type rule brings max_links to 50 or
\* more, and with more than 200 anchors and a density above 0.5 max_links is
\* not capped at 40.
LargePageTypesKeepLinks ==
    (/\ pc = "recommended"
     /\ page_analysis.page_type \in {"college"} \cup LargeScalePageTypes) =>
        /\ LinksByPageType(page_analysis) >= 50
        /\ (page_analysis.total_links > 200 /\ professor_density > 50) =>
               recommendations.max_links > 40

\* main.py:1364-1417: max_links and max_pages as they reach the final clamp.
BeforeClamp(pa, pi, density) ==
    [max_links |-> LinksByPageSize(LinksByDensity(LinksByPageType(pa), density),
                                   pa, density),
     max_pages |-> PagesByPagination(pi)]

\* The final clamp changes nothing, on every page characterization, every
\* pagination structure with estimated_total_pages >= 1 and every density.
ClampNeverActive ==
    \A pa \in PageAnalyses, pi \in PaginationStructures, d \in Densities :
        LET before == BeforeClamp(pa, pi, d)
            after == generate_parameter_recommendations(pa, pi, d)
        IN /\ before.max_links \in {20, 30, 40, 50, 60}
           /\ before.max_pages \in 1..5
           /\ after.max_links = before.max_links
           /\ after.max_pages = before.max_pages

\* C29: the final clamp of the recommender is never active (max_links reaches
\* it as one of 20, 30, 40, 50, 60 and max_pages, for estimated_total_pages
\* >= 1, in 1..5), so in intelligent mode the budget of the first pass lies
\* in [20,60] x [1,5] and the budget of every pass has max_links <= 100 and
\* max_pages <= 8.
RecommendedBudgetInside ==
    /\ ClampNeverActive
    /\ (use_intelligent_params /\ pc # "start") =>
           /\ budget.max_links \in {20, 30, 40, 50, 60}
           /\ budget.max_pages \in 1..5
           /\ \A i \in DOMAIN passes :
                  /\ passes[i].max_links <= 100
                  /\ passes[i].max_pages <= 8

\* A run that starts from the largest recommended budget (60, 5) and widens
\* to (100, 6).
RecommendedBudgetInsideWitness ==
    /\ pc = "done"
    /\ use_intelligent_params
    /\ Len(passes) = 2
    /\ passes[1].max_links = 60 /\ passes[1].max_pages = 5
    /\ passes[2].max_links = 100 /\ passes[2].max_pages = 6

====
